---------------------------- MODULE Spec2Model ----------------------------
(***************************************************************************)
(* Attendance back end (app/models.py, app/api.py, app/urls.py): the       *)
(* Attendance table with its unique_together constraint, the               *)
(* mark_attendance endpoint split at its database statements, the routed   *)
(* ModelViewSet endpoints, the current-class resolver, the                 *)
(* validate-attendance audit split at its count and update statements,     *)
(* and the statistics (attendance_percentage, quartile, feedback_message,  *)
(* my_attendance, course_stats).                                           *)
(*                                                                         *)
(* Times of day are minutes after midnight, distances are metres along a   *)
(* line through the lecture halls, the catalog (users, courses, halls,     *)
(* timetables) is fixed data.                                              *)
(***************************************************************************)
EXTENDS Integers, FiniteSets, Sequences, Bags, TLC

(***************************************************************************)
(* Bounds of the model.                                                    *)
(***************************************************************************)
\* requests the server serves at once
NSlots == 2
\* students of department 1, level 100 (the cohort of course 1)
CohortA == 40
\* students of department 1, level 200 (the cohort of course 2)
CohortB == 10

(***************************************************************************)
(* User.UserType and Attendance.Status.                                    *)
(***************************************************************************)
STUDENT == 1
LECTURER == 2
ADMIN == 3

PRESENT == "P"
ABSENT == "A"
VOIDED == "V"
Status == {PRESENT, ABSENT, VOIDED}

\* LectureHall.radius default, metres
DefaultRadius == 100
\* minutes in a day, and the audit's timedelta(hours=1)
DayMinutes == 1440
LookbackMinutes == 60

(***************************************************************************)
(* The catalog: users, courses, lecture halls, timetables.                 *)
(***************************************************************************)
StudentsA == 1 .. CohortA
StudentsB == (CohortA + 1) .. (CohortA + CohortB)
\* a student of department 2, level 100
StudentC == CohortA + CohortB + 1
TheLecturer == CohortA + CohortB + 2
TheAdmin == CohortA + CohortB + 3
Students == StudentsA \cup StudentsB \cup {StudentC}
Users == Students \cup {TheLecturer, TheAdmin}

NoDept == 0
\* a request without course_id
NoCourse == 0
\* a course_id no course has
UnknownCourse == 9
Departments == {1, 2}

user_type(u) ==
    IF u \in Students THEN STUDENT
    ELSE IF u = TheLecturer THEN LECTURER ELSE ADMIN

user_department(u) ==
    IF u = TheAdmin THEN NoDept ELSE IF u = StudentC THEN 2 ELSE 1

user_level(u) ==
    IF u \in StudentsA \cup {StudentC} THEN 100
    ELSE IF u \in StudentsB THEN 200 ELSE 0

Courses == {1, 2, 3}
Course ==
    [c \in Courses |->
        CASE c = 1 -> [department |-> 1, level |-> 100]
          [] c = 2 -> [department |-> 1, level |-> 200]
          [] c = 3 -> [department |-> 2, level |-> 300]]

\* User.courses of the lecturer
user_courses(u) == IF u = TheLecturer THEN {1} ELSE {}

Halls == {1, 2}
LectureHall ==
    [h \in Halls |->
        CASE h = 1 -> [position |-> 0, radius |-> DefaultRadius]
          [] h = 2 -> [position |-> 1000, radius |-> 0]]

Timetables == 1 .. 5
NoTimetable == 0
Timetable ==
    [t \in Timetables |->
        CASE t = 1 -> [course |-> 1, day_of_week |-> 0, start_time |-> 480,
                       end_time |-> 600, lecture_hall |-> 1, active |-> TRUE]
          [] t = 2 -> [course |-> 2, day_of_week |-> 0, start_time |-> 600,
                       end_time |-> 660, lecture_hall |-> 1, active |-> TRUE]
          [] t = 3 -> [course |-> 3, day_of_week |-> 0, start_time |-> 600,
                       end_time |-> 660, lecture_hall |-> 2, active |-> TRUE]
          [] t = 4 -> [course |-> 1, day_of_week |-> 0, start_time |-> 450,
                       end_time |-> 660, lecture_hall |-> 1, active |-> FALSE]
          [] t = 5 -> [course |-> 2, day_of_week |-> 1, start_time |-> 10,
                       end_time |-> 40, lecture_hall |-> 1, active |-> TRUE]]

(***************************************************************************)
(* The inputs: who calls, from where, and the instants the clock shows.    *)
(***************************************************************************)
Callers == {1, StudentC, TheLecturer}
\* a request without latitude or longitude: float(None) raises TypeError
NoPosition == -1
\* a latitude that is not a number or is outside [-90, 90]: float() or
\* geopy.distance.distance raises ValueError
BadPosition == -2
\* the points a request can give: inside hall 1, on its boundary, outside
\* it, and the centre of hall 2
Coordinates == {50, 100, 250, 1000}
Positions == Coordinates \cup {NoPosition, BadPosition}

\* (weekday, minute of the day) readings of timezone.now(), in order:
\* Monday 10:00, Monday 11:00 and Tuesday 00:50
Instants ==
    << [day |-> 0, time |-> 600], [day |-> 0, time |-> 660],
       [day |-> 1, time |-> 50] >>
NInstants == Len(Instants)

\* a PUT/PATCH body without status
NoStatus == "none"
\* what the status of a PUT/PATCH body can be
PatchStatuses == Status \cup {NoStatus}

\* minutes datetime.now() is ahead of timezone.now()
TzOffsets == {0}

Slots == 1 .. NSlots

\* no response of a statistics request is held
StatsNone ==
    [op |-> "none", user |-> 0, course |-> 0, status |-> "none", body |-> {}]

VARIABLES
    attendance,   \* the Attendance table: a bag of rows
    req,          \* per slot: the request in flight or its response
    audit,        \* the validate-attendance run or its response
    clock,        \* index into Instants
    tz,           \* offset of the server's local clock
    voidedLast,   \* history: the entry the last write voided, if it was the audit's
    stats,        \* the response of a statistics request
    upd,          \* per slot: a PUT/PATCH between its SELECT and its save()
    del,          \* per slot: a DELETE between its SELECT and its DELETE
    ser           \* the my_attendance response being serialized

vars ==
    <<attendance, req, audit, clock, tz, voidedLast, stats, upd, del, ser>>

today == Instants[clock].day
current_time == Instants[clock].time

RowsOf(att, t) == {row \in BagToSet(att) : row.timetable = t}
RowsOfPair(att, u, t) ==
    {row \in BagToSet(att) : row.student = u /\ row.timetable = t}

\* number of rows of a bag that satisfy a filter given as a set of rows
RECURSIVE CountRows(_, _)
CountRows(att, S) ==
    IF S = {} THEN 0
    ELSE LET row == CHOOSE x \in S : TRUE
         IN CopiesIn(row, att) + CountRows(att, S \ {row})

(***************************************************************************)
(* Timetable.objects.filter(day_of_week=today, start_time__lte=now,        *)
(* end_time__gte=now, course__department=dept, active=True).first(), under *)
(* Meta.ordering = ['day_of_week', 'start_time'].  A user without a        *)
(* department filters on IS NULL, which no course satisfies.  Rows equal in *)
(* the ordering come in an order the database chooses: .first() is any of  *)
(* them.                                                                   *)
(***************************************************************************)
FilterActiveMutant(dept, day, time) ==
    {t \in Timetables :
        /\ Timetable[t].day_of_week = day
        /\ Timetable[t].start_time <= time
        /\ Timetable[t].end_time >= time
        /\ Course[Timetable[t].course].department = dept}

FilterNoEndMutant(dept, day, time) ==
    {t \in Timetables :
        /\ Timetable[t].day_of_week = day
        /\ Timetable[t].start_time <= time
        /\ Course[Timetable[t].course].department = dept
        /\ Timetable[t].active}

FilterActive(dept, day, time) ==
    {t \in Timetables :
        /\ Timetable[t].day_of_week = day
        /\ Timetable[t].start_time <= time
        /\ Timetable[t].end_time >= time
        /\ Course[Timetable[t].course].department = dept
        /\ Timetable[t].active}

\* Meta.ordering: t comes no later than o
OrderedBefore(t, o) ==
    \/ Timetable[t].day_of_week < Timetable[o].day_of_week
    \/ /\ Timetable[t].day_of_week = Timetable[o].day_of_week
       /\ Timetable[t].start_time <= Timetable[o].start_time

\* the rows .first() may return: the heads of the ordered queryset
First(S) == {t \in S : \A o \in S : OrderedBefore(t, o)}

\* the candidates for current_timetable; {NoTimetable} when .first() is None
current_timetable(dept, day, time) ==
    LET matching == FilterActive(dept, day, time)
    IN IF matching = {} THEN {NoTimetable} ELSE First(matching)

(***************************************************************************)
(* geopy.distance.distance(hall_coords, student_coords).m                  *)
(***************************************************************************)
Distance(a, b) == IF a >= b THEN a - b ELSE b - a

\* the test `distance > lecture_hall.radius`
OutsideMutant(distance, radius) == distance >= radius

Outside(distance, radius) == distance > radius

(***************************************************************************)
(* The requests being served.  A request is served by one of NSlots        *)
(* workers from the moment it is accepted until its response is returned.  *)
(* A slot of req holds a mark_attendance request between its reads and its *)
(* INSERT (pc = "create", with the view's local variables) or the response *)
(* about to be returned (pc = "done").                                     *)
(***************************************************************************)
Idle ==
    [pc |-> "idle", user |-> 0, timetable |-> NoTimetable, resp |-> "none",
     position |-> 0, distance |-> 0, allowed_radius |-> 0]

Free(r) == req[r].pc = "idle"

\* the slot a new mark_attendance request takes: the first free one
Accepts(r) == Free(r) /\ \A q \in Slots : q < r => ~Free(q)

\* the requests being served
Busy ==
    Cardinality({r \in Slots : ~Free(r)})
       + Cardinality({r \in Slots : upd[r].pc # "idle"})
       + Cardinality({r \in Slots : del[r].pc # "idle"})
       + (IF audit.pc # "idle" THEN 1 ELSE 0)
       + (IF ser.pc # "idle" \/ stats.op # "none" THEN 1 ELSE 0)

\* a worker is there for a new request
Admits == Busy < NSlots

Response(u, t, resp) ==
    [pc |-> "done", user |-> u, timetable |-> t, resp |-> resp,
     position |-> 0, distance |-> 0, allowed_radius |-> 0]

\* Attendance.objects.filter(student=user, timetable=current_timetable).exists()
existing_attendance(att, u, t) == RowsOfPair(att, u, t) # {}

\* the check `user.user_type != User.UserType.STUDENT`
NotStudentMutant(u) == FALSE

NotStudent(u) == user_type(u) # STUDENT

\* student_coords = (float(latitude), float(longitude)) and geopy's
\* distance: the exception they raise for a coordinate that is missing or
\* not valid, "none" for a point
CoordinateError(p) ==
    IF p = NoPosition THEN "TypeError"
    ELSE IF p = BadPosition THEN "ValueError" ELSE "none"

(***************************************************************************)
(* mark_attendance up to its last read: the role check, the resolver, the  *)
(* exists() query, the conversion of the coordinates, whose exception is   *)
(* not caught, and the geofence test.                                      *)
(***************************************************************************)
mark_attendance(r, u, p) ==
    /\ Accepts(r)
    /\ Admits
    /\ \E t \in current_timetable(user_department(u), today, current_time) :
          LET hall == LectureHall[Timetable[t].lecture_hall]
              distance == Distance(hall.position, p)
              local == [position |-> p, distance |-> distance,
                        allowed_radius |-> hall.radius]
          IN req' = [req EXCEPT ![r] =
                IF NotStudent(u)
                  THEN Response(u, NoTimetable, "Forbidden")
                ELSE IF t = NoTimetable
                  THEN Response(u, NoTimetable, "NoActiveSession")
                ELSE IF existing_attendance(attendance, u, t)
                  THEN Response(u, t, "AlreadyMarked")
                ELSE IF CoordinateError(p) # "none"
                  THEN [Response(u, t, CoordinateError(p))
                           EXCEPT !.position = p]
                ELSE IF Outside(distance, hall.radius)
                  THEN local @@ Response(u, t, "OutOfRange")
                ELSE local @@ [Response(u, t, "none") EXCEPT !.pc = "create"]]
    /\ UNCHANGED <<attendance, audit, clock, tz, voidedLast, stats, upd, del, ser>>

(***************************************************************************)
(* Attendance.objects.create(...): the INSERT, under the table's           *)
(* unique_together = ('student', 'timetable').  The IntegrityError of a     *)
(* refused INSERT is not caught by the view.                               *)
(***************************************************************************)
UniqueViolationMutant(att, u, t) == FALSE

UniqueViolation(att, u, t) == RowsOfPair(att, u, t) # {}

NewRowMutant(u, t) ==
    [student |-> u, course |-> Timetable[t].course, timetable |-> t,
     status |-> ABSENT]

\* status takes the field's default
NewRow(u, t) ==
    [student |-> u, course |-> Timetable[t].course, timetable |-> t,
     status |-> PRESENT]

mark_attendance_create(r) ==
    /\ req[r].pc = "create"
    /\ LET u == req[r].user
           t == req[r].timetable
       IN IF UniqueViolation(attendance, u, t)
            THEN /\ req' = [req EXCEPT ![r] = Response(u, t, "IntegrityError")]
                 /\ UNCHANGED <<attendance, voidedLast>>
            ELSE /\ attendance' = attendance (+) SetToBag({NewRow(u, t)})
                 /\ req' = [req EXCEPT ![r] = Response(u, t, "Created")]
                 /\ voidedLast' = NoTimetable
    /\ UNCHANGED <<audit, clock, tz, stats, upd, del, ser>>

\* the response of mark_attendance is returned (for an exception, the
\* server's error response) and the worker is free
mark_attendance_return(r) ==
    /\ req[r].pc = "done"
    /\ req' = [req EXCEPT ![r] = Idle]
    /\ UNCHANGED <<attendance, audit, clock, tz, voidedLast, stats, upd, del, ser>>

(***************************************************************************)
(* The routed ModelViewSet endpoints of AttendanceViewSet                  *)
(* (router.register(r'attendance', AttendanceViewSet)): create, update,    *)
(* partial_update and destroy, each on get_queryset().                     *)
(***************************************************************************)
get_queryset(att, u) ==
    IF user_type(u) = STUDENT
      THEN {row \in BagToSet(att) : row.student = u}
    ELSE IF user_type(u) = LECTURER
      THEN {row \in BagToSet(att) : row.course \in user_courses(u)}
    ELSE {}

\* POST attendance/: student, course and timetable are read-only fields of
\* the serializer, the INSERT has no student and is refused (NOT NULL)
attendance_create(u) ==
    /\ Admits
    /\ u \in Callers
    /\ UNCHANGED vars

(***************************************************************************)
(* A PUT/PATCH or DELETE in flight holds the pk of the row it SELECTed.     *)
(* stale = 0: that row is in the table, it is the row of the request's     *)
(* (student, timetable).  stale = k > 0: that row has been deleted; the    *)
(* requests in flight on the pair with the same k hold the same pk.  A row *)
(* INSERTed by mark_attendance has a new pk, which no request in flight    *)
(* holds; a row INSERTed by save() has the pk of the instance.             *)
(***************************************************************************)
\* no PUT/PATCH is in flight in the slot
UpdIdle ==
    [pc |-> "idle", student |-> 0, timetable |-> NoTimetable,
     status |-> PRESENT, stale |-> 0]

\* no DELETE is in flight in the slot
DelIdle ==
    [pc |-> "idle", student |-> 0, timetable |-> NoTimetable, stale |-> 0]

\* the slot a new PUT/PATCH, or a new DELETE, takes: the first free one
AcceptsUpdate(r) ==
    upd[r].pc = "idle" /\ \A q \in Slots : q < r => upd[q].pc # "idle"

AcceptsDestroy(r) ==
    del[r].pc = "idle" /\ \A q \in Slots : q < r => del[q].pc # "idle"

\* the request of a slot is in flight on the pair (u, t)
OnPair(op, u, t) == op.pc # "idle" /\ op.student = u /\ op.timetable = t

\* a k that no request in flight on (u, t) holds for a deleted row
FreshStale(u, t) ==
    LET held == {upd[r].stale : r \in {x \in Slots : OnPair(upd[x], u, t)}}
                   \cup {del[r].stale :
                            r \in {x \in Slots : OnPair(del[x], u, t)}}
    IN CHOOSE k \in 1 .. NSlots :
          k \notin held /\ \A j \in 1 .. (k - 1) : j \in held

\* the requests in flight once the row of (u, t) is deleted: those that
\* hold its pk hold a deleted row, under k
Deleted(ops, u, t, k) ==
    [r \in Slots |->
        IF OnPair(ops[r], u, t) /\ ops[r].stale = 0
          THEN [ops[r] EXCEPT !.stale = k] ELSE ops[r]]

\* the requests in flight once save() has INSERTed the deleted row held
\* under k: those that hold its pk hold a row of the table again
Restored(ops, u, t, k) ==
    [r \in Slots |->
        IF OnPair(ops[r], u, t) /\ ops[r].stale = k
          THEN [ops[r] EXCEPT !.stale = 0] ELSE ops[r]]

\* PUT/PATCH attendance/<pk>/ with a status, up to serializer.save():
\* get_object() SELECTs the row from get_queryset() and the serializer
\* sets the status on the instance
attendance_update(r, u, row, s) ==
    /\ AcceptsUpdate(r)
    /\ row \in get_queryset(attendance, u)
    /\ Admits
    /\ upd' = [upd EXCEPT ![r] =
                  [pc |-> "save", student |-> row.student,
                   timetable |-> row.timetable,
                   status |-> IF s = NoStatus THEN row.status ELSE s,
                   stale |-> 0]]
    /\ UNCHANGED <<attendance, req, audit, clock, tz, voidedLast, stats, del,
                   ser>>

\* instance.save(), first statement: UPDATE of all columns WHERE pk.  When
\* it matches no row (the row was deleted since the SELECT) save() goes on
\* to an INSERT
attendance_update_save(r) ==
    /\ upd[r].pc = "save"
    /\ LET u == upd[r].student
           t == upd[r].timetable
           saved == [NewRow(u, t) EXCEPT !.status = upd[r].status]
       IN IF upd[r].stale = 0
            THEN LET row == CHOOSE x \in RowsOfPair(attendance, u, t) : TRUE
                 IN /\ attendance' = (attendance (-) SetToBag({row}))
                                         (+) SetToBag({saved})
                    /\ voidedLast' = NoTimetable
                    /\ upd' = [upd EXCEPT ![r] = UpdIdle]
            ELSE /\ upd' = [upd EXCEPT ![r].pc = "insert"]
                 /\ UNCHANGED <<attendance, voidedLast>>
    /\ UNCHANGED <<req, audit, clock, tz, stats, del, ser>>

\* instance.save(), second statement: the INSERT of the instance, with its
\* pk, under unique_together; the IntegrityError of a refused INSERT (the
\* pair has a row again) is not caught
attendance_update_insert(r) ==
    /\ upd[r].pc = "insert"
    /\ LET u == upd[r].student
           t == upd[r].timetable
           k == upd[r].stale
           saved == [NewRow(u, t) EXCEPT !.status = upd[r].status]
       IN IF UniqueViolation(attendance, u, t)
            THEN /\ upd' = [upd EXCEPT ![r] = UpdIdle]
                 /\ UNCHANGED <<attendance, voidedLast, del>>
            ELSE /\ attendance' = attendance (+) SetToBag({saved})
                 /\ voidedLast' = NoTimetable
                 /\ upd' = [Restored(upd, u, t, k) EXCEPT ![r] = UpdIdle]
                 /\ del' = Restored(del, u, t, k)
    /\ UNCHANGED <<req, audit, clock, tz, stats, ser>>

\* DELETE attendance/<pk>/ up to instance.delete(): get_object() SELECTs the
\* row from get_queryset()
attendance_destroy(r, u, row) ==
    /\ AcceptsDestroy(r)
    /\ row \in get_queryset(attendance, u)
    /\ Admits
    /\ del' = [del EXCEPT ![r] =
                  [pc |-> "delete", student |-> row.student,
                   timetable |-> row.timetable, stale |-> 0]]
    /\ UNCHANGED <<attendance, req, audit, clock, tz, voidedLast, stats, upd,
                   ser>>

\* instance.delete(): DELETE WHERE pk.  It deletes the row it SELECTed,
\* with the status the row has by now, and matches no row when that row
\* has been deleted since, whether or not the pair has a row again
attendance_destroy_delete(r) ==
    /\ del[r].pc = "delete"
    /\ LET u == del[r].student
           t == del[r].timetable
       IN IF del[r].stale = 0
            THEN LET row == CHOOSE x \in RowsOfPair(attendance, u, t) : TRUE
                     k == FreshStale(u, t)
                 IN /\ attendance' = attendance (-) SetToBag({row})
                    /\ voidedLast' = NoTimetable
                    /\ upd' = Deleted(upd, u, t, k)
                    /\ del' = [Deleted(del, u, t, k) EXCEPT ![r] = DelIdle]
            ELSE /\ del' = [del EXCEPT ![r] = DelIdle]
                 /\ UNCHANGED <<attendance, voidedLast, upd>>
    /\ UNCHANGED <<req, audit, clock, tz, stats, ser>>

(***************************************************************************)
(* ValidateAttendanceView.post, split at its statements on the Attendance  *)
(* table: the count of an entry's rows and the update that voids them.     *)
(***************************************************************************)
\* (datetime.now() - timedelta(hours=1)).time()
one_hour_ago(time, offset) ==
    (time + offset + DayMinutes - LookbackMinutes) % DayMinutes

recent_classes(day, time, offset) ==
    {t \in Timetables :
        /\ Timetable[t].day_of_week = day
        /\ Timetable[t].end_time >= one_hour_ago(time, offset)
        /\ Timetable[t].end_time <= time
        /\ Timetable[t].active}

total_students(t) ==
    Cardinality({u \in Users :
        /\ user_type(u) = STUDENT
        /\ user_department(u) = Course[Timetable[t].course].department
        /\ user_level(u) = Course[Timetable[t].course].level})

marked_attendance(att, t) == CountRows(att, RowsOf(att, t))

\* marked_attendance / total_students < 0.1, for total_students > 0
BelowThreshold(marked, total) == 10 * marked < total

\* Attendance.objects.filter(timetable=t).update(status=VOIDED): the table
\* after the update
RECURSIVE VoidRows(_, _)
VoidRows(att, S) ==
    IF S = {} THEN att
    ELSE LET row == CHOOSE x \in S : TRUE
             n == CopiesIn(row, att)
             moved == [x \in {[row EXCEPT !.status = VOIDED]} |-> n]
         IN VoidRows((att (-) [x \in {row} |-> n]) (+) moved, S \ {row})

\* changed is history: the entries of which the run has changed a row
AuditIdle ==
    [pc |-> "idle", todo |-> {}, current |-> NoTimetable,
     voided_count |-> 0, total_classes |-> 0, changed |-> {}]

\* the loop goes on with the rest of the queryset, or leaves for the
\* response
AfterEntry(a, rest) ==
    [a EXCEPT !.pc = IF rest = {} THEN "respond" ELSE "loop",
              !.todo = rest, !.current = NoTimetable]

validate_attendance(u) ==
    /\ Admits
    /\ u \in Callers
    /\ audit.pc = "idle"
    /\ LET recent == recent_classes(today, current_time, tz)
       IN audit' = AfterEntry([AuditIdle EXCEPT
                                  !.total_classes = Cardinality(recent)],
                              recent)
    /\ UNCHANGED <<attendance, req, clock, tz, voidedLast, stats, upd, del, ser>>

\* one turn of the loop up to the comparison; the division raises
\* ZeroDivisionError for an empty cohort and the view fails
validate_count ==
    /\ audit.pc = "loop"
    /\ \E t \in First(audit.todo) :
          LET total == total_students(t)
              marked == marked_attendance(attendance, t)
          IN audit' =
                IF total = 0
                  THEN [AuditIdle EXCEPT !.pc = "failed", !.current = t]
                ELSE IF BelowThreshold(marked, total)
                  THEN [audit EXCEPT !.pc = "void", !.current = t]
                ELSE AfterEntry(audit, audit.todo \ {t})
    /\ UNCHANGED <<attendance, req, clock, tz, voidedLast, stats, upd, del, ser>>

validate_void ==
    /\ audit.pc = "void"
    /\ LET t == audit.current
           voided == marked_attendance(attendance, t)
       IN /\ attendance' = VoidRows(attendance, RowsOf(attendance, t))
          /\ audit' = AfterEntry([audit EXCEPT
                                     !.voided_count = @ + voided,
                                     !.changed =
                                        IF \E row \in RowsOf(attendance, t) :
                                              row.status # VOIDED
                                          THEN @ \cup {t} ELSE @],
                                 audit.todo \ {t})
          /\ voidedLast' =
                IF \/ voidedLast = t
                   \/ \E row \in RowsOf(attendance, t) : row.status # VOIDED
                  THEN t ELSE NoTimetable
    /\ UNCHANGED <<req, clock, tz, stats, upd, del, ser>>

\* recent_classes.count() and the Response, after the loop; the catalog is
\* fixed, so the count is the size of the queryset the loop went through
validate_respond ==
    /\ audit.pc = "respond"
    /\ audit' = [audit EXCEPT !.pc = "done"]
    /\ UNCHANGED <<attendance, req, clock, tz, voidedLast, stats, upd, del, ser>>

\* the summary (after a ZeroDivisionError, the server's error response) is
\* returned and the worker is free
validate_return ==
    /\ audit.pc \in {"done", "failed"}
    /\ audit' = AuditIdle
    /\ UNCHANGED <<attendance, req, clock, tz, voidedLast, stats, upd, del, ser>>

(***************************************************************************)
(* The statistics: Attendance.attendance_percentage, quartile and          *)
(* feedback_message, which AttendanceSerializer reports with every row,    *)
(* and the course_stats endpoint.  A percentage is the fraction num / den  *)
(* with den > 0, so that n / total * 100 is kept exact.  Each of the three *)
(* properties counts the rows of the table when it is read: quartile reads *)
(* attendance_percentage anew and feedback_message reads quartile anew.    *)
(***************************************************************************)
Percent(num, den) == [num |-> num, den |-> den]

\* Timetable.objects.filter(course=self.course, active=True).count()
ActiveClasses(c) ==
    Cardinality({t \in Timetables :
        Timetable[t].course = c /\ Timetable[t].active})

\* Attendance.objects.filter(student=.., course=.., status=PRESENT).count()
attended_classes(att, u, c) ==
    CountRows(att, {row \in BagToSet(att) :
        row.student = u /\ row.course = c /\ row.status = PRESENT})

attendance_percentage(att, u, c) ==
    LET total_classes == ActiveClasses(c)
    IN IF total_classes > 0
         THEN Percent(100 * attended_classes(att, u, c), total_classes)
         ELSE Percent(0, 1)

\* the chain of comparisons of Attendance.quartile, on its local percentage
QuartileChainMutant(percentage) ==
    IF percentage.num = 0 THEN 0
    ELSE IF percentage.num < 25 * percentage.den THEN 1
    ELSE IF percentage.num <= 50 * percentage.den THEN 2
    ELSE IF percentage.num <= 75 * percentage.den THEN 3
    ELSE IF percentage.num < 100 * percentage.den THEN 4
    ELSE 5

QuartileChain(percentage) ==
    IF percentage.num = 0 THEN 0
    ELSE IF percentage.num <= 25 * percentage.den THEN 1
    ELSE IF percentage.num <= 50 * percentage.den THEN 2
    ELSE IF percentage.num <= 75 * percentage.den THEN 3
    ELSE IF percentage.num < 100 * percentage.den THEN 4
    ELSE 5

\* Attendance.quartile of a row of (student, course), read from table att
quartile(att, u, c) == QuartileChain(attendance_percentage(att, u, c))

\* messages.get(quartile, ""), the messages without their emoji
Messages(q) ==
    CASE q = 0 -> "Bro you no dey come class?!! Shuu !!"
      [] q = 1 -> "Better dey try come class o!"
      [] q = 2 -> "Why you dey miss class na?"
      [] q = 3 -> "No miss class oh, make you no fail!"
      [] q = 4 -> "Omo, you dey try. Just add small pepper"
      [] q = 5 -> "Responsible pikin, you know wetin you come do for school!"
      [] OTHER -> ""

\* Attendance.feedback_message of a row of (student, course), read from att
feedback_message(att, u, c) == Messages(quartile(att, u, c))

StatsResponse(op, u, c, status, body) ==
    [op |-> op, user |-> u, course |-> c, status |-> status, body |-> body]

\* a quartile not computed yet
NoQuartile == -1

\* no row is being serialized
NoRow ==
    [student |-> 0, course |-> NoCourse, timetable |-> NoTimetable,
     status |-> PRESENT]

\* no my_attendance response is being serialized
SerIdle ==
    [pc |-> "idle", user |-> 0, todo |-> {}, row |-> NoRow, percentage |-> Percent(0, 1), quartile |-> NoQuartile,
     body |-> {}]

(***************************************************************************)
(* GET attendance/my_attendance/?course_id=c; c = NoCourse: no filter.     *)
(* The role check and the SELECT of the caller's rows; the rows are then   *)
(* serialized one after the other, in the order of their timestamps, which *)
(* is any order.  The response does not say which course_id was asked for. *)
(***************************************************************************)
my_attendance(u, c) ==
    /\ Admits
    /\ ser.pc = "idle" /\ stats.op = "none"
    /\ LET queryset == {x \in BagToSet(attendance) :
                           /\ x.student = u
                           /\ c # NoCourse => x.course = c}
       IN IF user_type(u) # STUDENT
            THEN /\ stats' = StatsResponse("my_attendance", u, NoCourse,
                                           "Forbidden", {})
                 /\ ser' = ser
          ELSE IF queryset = {}
            THEN /\ stats' = StatsResponse("my_attendance", u, NoCourse,
                                           "OK", {})
                 /\ ser' = ser
          ELSE /\ stats' = stats
               /\ ser' = [SerIdle EXCEPT !.pc = "percentage", !.user = u,
                                         !.todo = queryset]
    /\ UNCHANGED <<attendance, req, audit, clock, tz, voidedLast, upd, del>>

\* AttendanceSerializer's field attendance_percentage of the next row: the
\* property counts the rows of the table as it is now
serialize_attendance_percentage ==
    /\ ser.pc = "percentage"
    /\ \E row \in ser.todo :
          ser' = [ser EXCEPT
                     !.pc = "quartile", !.row = row, !.todo = @ \ {row},
                     !.percentage = attendance_percentage(
                                       attendance, row.student, row.course)]
    /\ UNCHANGED <<attendance, req, audit, clock, tz, voidedLast, stats, upd, del>>

\* the field quartile of the row: the property reads the percentage anew
serialize_quartile ==
    /\ ser.pc = "quartile"
    /\ ser' = [ser EXCEPT
                  !.pc = "feedback",
                  !.quartile = quartile(attendance,
                                        ser.row.student, ser.row.course)]
    /\ UNCHANGED <<attendance, req, audit, clock, tz, voidedLast, stats, upd, del>>

\* the field feedback_message of the row: the property reads the quartile
\* anew; the other fields are those of the row as it was SELECTed; after
\* the last row the response is returned
serialize_feedback_message ==
    /\ ser.pc = "feedback"
    /\ LET row == ser.row
           entry == [student |-> row.student, course |-> row.course,
                     timetable |-> row.timetable, status |-> row.status,
                     percentage |-> ser.percentage,
                     quartile |-> ser.quartile,
                     feedback |-> feedback_message(attendance, row.student,
                                                   row.course)]
           body == ser.body \cup {entry}
       IN IF ser.todo = {}
            THEN /\ stats' = StatsResponse("my_attendance", ser.user,
                                           NoCourse, "OK", body)
                 /\ ser' = SerIdle
            ELSE /\ stats' = stats
                 /\ ser' = [ser EXCEPT !.pc = "percentage", !.row = NoRow,
                                       !.percentage = Percent(0, 1),
                                       !.quartile = NoQuartile,
                                       !.body = body]
    /\ UNCHANGED <<attendance, req, audit, clock, tz, voidedLast, upd, del>>

\* the students course_stats lists for a lecturer
course_students(c) ==
    {u \in Users :
        /\ user_type(u) = STUDENT
        /\ user_department(u) = Course[c].department
        /\ user_level(u) = Course[c].level}

\* GET attendance/course_stats/?course_id=c.  'quartile' and
\* 'feedback_message' are properties of Attendance, not fields:
\* Attendance._meta.get_field('quartile') raises FieldDoesNotExist while
\* the first dictionary of the response is built, and the view fails.
course_stats(u, c) ==
    /\ Admits
    /\ ser.pc = "idle" /\ stats.op = "none"
    /\ stats' =
          IF c = NoCourse
            THEN StatsResponse("course_stats", u, c, "BadRequest", {})
          ELSE IF c \notin Courses
            THEN StatsResponse("course_stats", u, c, "NotFound", {})
          ELSE IF user_type(u) = STUDENT
            THEN StatsResponse("course_stats", u, c, "FieldDoesNotExist", {})
          ELSE IF user_type(u) = LECTURER
            THEN IF c \notin user_courses(u)
                   THEN StatsResponse("course_stats", u, c, "Forbidden", {})
                 ELSE IF course_students(c) = {}
                   THEN StatsResponse("course_stats", u, c, "OK", {})
                 ELSE StatsResponse("course_stats", u, c,
                                    "FieldDoesNotExist", {})
          ELSE StatsResponse("course_stats", u, c, "NoResponse", {})
    /\ UNCHANGED <<attendance, req, audit, clock, tz, voidedLast, upd, del, ser>>

\* the response of my_attendance or course_stats (for FieldDoesNotExist, the
\* server's error response) is returned and the worker is free
stats_return ==
    /\ stats.op # "none"
    /\ stats' = StatsNone
    /\ UNCHANGED <<attendance, req, audit, clock, tz, voidedLast, upd, del, ser>>

(***************************************************************************)
(* The clock moves on to the next instant; after the last one the next     *)
(* week begins.  A request between two of its statements stays in flight   *)
(* while the clock moves; a response that is ready has been returned by    *)
(* then (returning it touches neither the table nor another request).      *)
(***************************************************************************)
Tick ==
    /\ \A r \in Slots : req[r].pc # "done"
    /\ audit.pc \notin {"done", "failed"}
    /\ stats.op = "none"
    /\ clock' = (clock % NInstants) + 1
    /\ UNCHANGED <<attendance, req, audit, tz, voidedLast, stats, upd, del, ser>>

Init ==
    /\ attendance = EmptyBag
    /\ req = [r \in Slots |-> Idle]
    /\ audit = AuditIdle
    /\ clock = 1
    /\ tz \in TzOffsets
    /\ voidedLast = NoTimetable
    /\ stats = StatsNone
    /\ upd = [r \in Slots |-> UpdIdle]
    /\ del = [r \in Slots |-> DelIdle]
    /\ ser = SerIdle

Next ==
    \/ \E r \in Slots, u \in Callers, p \in Positions : mark_attendance(r, u, p)
    \/ \E r \in Slots : mark_attendance_create(r)
    \/ \E r \in Slots : mark_attendance_return(r)
    \/ \E u \in Callers : attendance_create(u)
    \/ \E r \in Slots, u \in Callers, row \in BagToSet(attendance),
          s \in PatchStatuses :
          attendance_update(r, u, row, s)
    \/ \E r \in Slots : attendance_update_save(r)
    \/ \E r \in Slots : attendance_update_insert(r)
    \/ \E r \in Slots, u \in Callers, row \in BagToSet(attendance) :
          attendance_destroy(r, u, row)
    \/ \E r \in Slots : attendance_destroy_delete(r)
    \/ \E u \in Callers : validate_attendance(u)
    \/ validate_count
    \/ validate_void
    \/ validate_respond
    \/ validate_return
    \/ Tick

Spec == Init /\ [][Next]_vars

(***************************************************************************)
(* The statistics read from a table that other requests write, at Monday   *)
(* 10:00.  The tables at the start are those of one student of course 1's  *)
(* cohort over the two entries of course 1: for each entry no row, or a    *)
(* row in one of the three statuses.  Entry 4 is disabled                  *)
(* (Timetable.active is a field the catalog can change); its rows were     *)
(* written while it was enabled.  The student marks entry 1, sets the      *)
(* status of own rows, deletes them and runs the audit while a response is *)
(* serialized.                                                             *)
(***************************************************************************)
CourseEntries(c) == {t \in Timetables : Timetable[t].course = c}

StatsTables ==
    {SetToBag({[NewRow(1, t) EXCEPT !.status = f[t]] :
                  t \in {x \in CourseEntries(1) : f[x] # "none"}}) :
        f \in [CourseEntries(1) -> Status \cup {"none"}]}

StatsCallers == {1, TheLecturer, TheAdmin}

InitStats ==
    /\ attendance \in StatsTables
    /\ req = [r \in Slots |-> Idle]
    /\ audit = AuditIdle
    /\ clock = 1
    /\ tz \in TzOffsets
    /\ voidedLast = NoTimetable
    /\ stats = StatsNone
    /\ upd = [r \in Slots |-> UpdIdle]
    /\ del = [r \in Slots |-> DelIdle]
    /\ ser = SerIdle

\* who writes the table while the statistics are read, and from where
StatsWriters == {1}
StatsPositions == {100}

NextStats ==
    \/ \E u \in StatsCallers, c \in Courses \cup {NoCourse} :
          my_attendance(u, c)
    \/ serialize_attendance_percentage
    \/ serialize_quartile
    \/ serialize_feedback_message
    \/ \E u \in StatsCallers, c \in Courses \cup {NoCourse, UnknownCourse} :
          course_stats(u, c)
    \/ stats_return
    \/ \E r \in Slots, u \in StatsWriters, p \in StatsPositions :
          mark_attendance(r, u, p)
    \/ \E r \in Slots : mark_attendance_create(r)
    \/ \E r \in Slots : mark_attendance_return(r)
    \/ \E r \in Slots, u \in StatsWriters, row \in BagToSet(attendance),
          s \in PatchStatuses :
          attendance_update(r, u, row, s)
    \/ \E r \in Slots : attendance_update_save(r)
    \/ \E r \in Slots : attendance_update_insert(r)
    \/ \E r \in Slots, u \in StatsWriters, row \in BagToSet(attendance) :
          attendance_destroy(r, u, row)
    \/ \E r \in Slots : attendance_destroy_delete(r)
    \/ \E u \in StatsWriters : validate_attendance(u)
    \/ validate_count
    \/ validate_void
    \/ validate_respond
    \/ validate_return

SpecStats == InitStats /\ [][NextStats]_vars

(***************************************************************************)
(* Four students of course 1's cohort mark entry 1 from inside its hall    *)
(* while the audit runs, at Monday 10:00: entry 1 is active up to and      *)
(* including its end time, and has ended within the audit's last hour.     *)
(***************************************************************************)
RaceCallers == {1, 2, 3, 4}

NextRace ==
    \/ \E r \in Slots, u \in RaceCallers : mark_attendance(r, u, 50)
    \/ \E r \in Slots : mark_attendance_create(r)
    \/ \E r \in Slots : mark_attendance_return(r)
    \/ \E u \in RaceCallers : validate_attendance(u)
    \/ validate_count
    \/ validate_void
    \/ validate_respond
    \/ validate_return

SpecRace == Init /\ [][NextRace]_vars

(***************************************************************************)
(* The comparisons of Attendance.quartile applied to its local percentage: *)
(* the percentages are the hundredths from 0 to 100 and the fractions      *)
(* k / total * 100 a course of the catalog can give.                       *)
(***************************************************************************)
PercentInputs ==
    {Percent(n, 100) : n \in 0 .. (100 * 100)}
       \cup {Percent(100 * k, total) :
                 k \in 0 .. Cardinality(Timetables),
                 total \in 1 .. Cardinality(Timetables)}

\* the if-chain of Attendance.quartile, from the value the property has
\* read into percentage to the value it returns
quartile_chain ==
    /\ ser.pc = "chain"
    /\ ser' = [ser EXCEPT !.pc = "chained",
                          !.quartile = QuartileChain(ser.percentage)]
    /\ UNCHANGED <<attendance, req, audit, clock, tz, voidedLast, stats, upd, del>>

InitQuartile ==
    /\ attendance = EmptyBag
    /\ req = [r \in Slots |-> Idle]
    /\ audit = AuditIdle
    /\ clock = 1
    /\ tz \in TzOffsets
    /\ voidedLast = NoTimetable
    /\ stats = StatsNone
    /\ upd = [r \in Slots |-> UpdIdle]
    /\ del = [r \in Slots |-> DelIdle]
    /\ \E percentage \in PercentInputs :
          ser = [SerIdle EXCEPT !.pc = "chain", !.percentage = percentage]

SpecQuartile == InitQuartile /\ [][quartile_chain]_vars

(***************************************************************************)
(* What the claims speak of.                                               *)
(***************************************************************************)
\* number of rows of the table for (student, timetable)
PairCount(att, u, t) == CountRows(att, RowsOfPair(att, u, t))

\* slot r has just served the first part of a mark_attendance request
Served(r) == Free(r) /\ req'[r] # req[r]

\* slot r has just run its INSERT
Inserted(r) == req[r].pc = "create" /\ req'[r].pc = "done"

\* d is the metres between the points a and b of the line
Apart(a, b, d) == d >= 0 /\ (d = a - b \/ d = b - a)

\* the point p is within the radius of the hall, the boundary included
InsideGeofence(hall, p) ==
    /\ p \in Coordinates
    /\ p - hall.position <= hall.radius
    /\ hall.position - p <= hall.radius

\* slot r has just served a call of a student that resolved to an entry for
\* which the student has no row
ServedUnmarked(r) ==
    /\ Served(r)
    /\ user_type(req'[r].user) = STUDENT
    /\ req'[r].timetable # NoTimetable
    /\ ~existing_attendance(attendance, req'[r].user, req'[r].timetable)

(***************************************************************************)
(* C1.  In every reachable state the table holds at most one row for each  *)
(* (student, timetable) pair, whatever mark_attendance requests and audit  *)
(* runs have interleaved.                                                  *)
(***************************************************************************)
C1_AtMostOneRecord ==
    \A row \in BagToSet(attendance) :
        PairCount(attendance, row.student, row.timetable) = 1

\* a second INSERT for a pair was refused and the pair has its one row,
\* next to a row of entry 3 marked from the centre of its hall
C1_Witness ==
    /\ \E r \in Slots :
          /\ req[r].resp = "IntegrityError"
          /\ PairCount(attendance, req[r].user, req[r].timetable) = 1
    /\ PairCount(attendance, StudentC, 3) = 1

(***************************************************************************)
(* C2.  Two concurrent mark_attendance calls for the same (student,        *)
(* timetable), every other precondition satisfied: one succeeds and the    *)
(* other fails with AlreadyMarked, so an INSERT that finds the pair's row  *)
(* already there answers AlreadyMarked and any other INSERT succeeds; no   *)
(* call ends with an untranslated storage error.                           *)
(***************************************************************************)
C2_RaceGivesAlreadyMarked ==
    [][\A r \in Slots :
          Inserted(r) =>
             IF existing_attendance(attendance, req[r].user, req[r].timetable)
               THEN req'[r].resp = "AlreadyMarked" /\ attendance' = attendance
               ELSE req'[r].resp = "Created"]_vars

(***************************************************************************)
(* C3.  A call by a student, for the active entry of the student's         *)
(* department, from a point whose distance to the entry's hall is at most  *)
(* the hall's radius, with no row for (student, entry), goes on to the     *)
(* INSERT, and the INSERT then adds exactly one row, with status Present;  *)
(* a call made when the pair's row exists answers AlreadyMarked and leaves *)
(* the table as it is.                                                     *)
(***************************************************************************)
C3_MarkThenAlreadyMarked ==
    [][\A r \in Slots :
          LET q == req'[r]
              u == req[r].user
              t == req[r].timetable
          IN /\ ( /\ Served(r)
                  /\ q.timetable # NoTimetable
                  /\ existing_attendance(attendance, q.user, q.timetable) )
                => ( /\ q.pc = "done"
                     /\ q.resp = "AlreadyMarked"
                     /\ attendance' = attendance )
             /\ ( /\ ServedUnmarked(r)
                  /\ InsideGeofence(
                        LectureHall[Timetable[q.timetable].lecture_hall],
                        q.position) )
                => ( q.pc = "create" /\ attendance' = attendance )
             /\ ( Inserted(r) /\ ~existing_attendance(attendance, u, t) )
                => ( /\ q.resp = "Created"
                     /\ attendance' = attendance (+) SetToBag({
                            [student |-> u, course |-> Timetable[t].course,
                             timetable |-> t, status |-> PRESENT]}) )]_vars

\* a retry after a success: the pair's row is there, Present, and the retry
\* was answered AlreadyMarked
C3_Witness ==
    \E r \in Slots :
        /\ req[r].resp = "AlreadyMarked"
        /\ PairCount(attendance, req[r].user, req[r].timetable) = 1
        /\ \E row \in RowsOfPair(attendance, req[r].user, req[r].timetable) :
              row.status = PRESENT

(***************************************************************************)
(* C4.  The geofence test takes the caller as inside exactly when          *)
(* distance <= radius: a call that comes to the test from a point is       *)
(* answered OutOfRange exactly when the point is farther from the hall     *)
(* than the hall's radius and goes on to the INSERT otherwise, equality    *)
(* included; an OutOfRange response carries the metres between the hall    *)
(* and the observed point and the hall's radius, that distance is > the    *)
(* radius and the call wrote nothing; a call that went on to the INSERT    *)
(* has distance <= radius.                                                 *)
(***************************************************************************)
C4_GeofenceDecision ==
    [][\A r \in Slots :
          LET q == req'[r]
              hall == LectureHall[Timetable[q.timetable].lecture_hall]
              computed ==
                  /\ Apart(hall.position, q.position, q.distance)
                  /\ q.allowed_radius = hall.radius
          IN /\ q.resp = "OutOfRange"
                => ( /\ q.pc = "done"
                     /\ computed
                     /\ q.distance > hall.radius
                     /\ (Served(r) => attendance' = attendance) )
             /\ q.pc = "create"
                => ( computed /\ q.distance <= hall.radius )
             /\ (ServedUnmarked(r) /\ q.position \in Coordinates)
                => ( /\ q.pc = "create" <=> InsideGeofence(hall, q.position)
                     /\ q.resp = "OutOfRange"
                           <=> ~InsideGeofence(hall, q.position) )]_vars

\* one call on the boundary of the hall of radius 0 (distance = radius = 0)
\* is about to insert, another was refused as out of range of the hall of
\* the default radius
C4_Witness ==
    \E r, q \in Slots :
        /\ req[r].pc = "create"
        /\ req[r].distance = req[r].allowed_radius
        /\ req[r].allowed_radius = 0
        /\ req[q].resp = "OutOfRange"
        /\ req[q].distance > req[q].allowed_radius
        /\ req[q].allowed_radius = DefaultRadius

(***************************************************************************)
(* C5.  A row is created only by mark_attendance's INSERT, its status is   *)
(* changed only by the audit and only from Present or Absent to Voided,    *)
(* and no row is ever deleted: every step keeps every row, with its status *)
(* or, in the audit's update, Voided in place of Present or Absent, and    *)
(* adds at most the one row of a successful INSERT.                        *)
(***************************************************************************)
C5_OnlyMarkCreatesOnlyAuditVoids ==
    [][/\ \A row \in BagToSet(attendance) :
             \E kept \in BagToSet(attendance') :
                /\ kept.student = row.student
                /\ kept.timetable = row.timetable
                /\ kept.course = row.course
                /\ \/ kept.status = row.status
                   \/ /\ audit.pc = "void" /\ audit' # audit
                      /\ row.status \in {PRESENT, ABSENT}
                      /\ kept.status = VOIDED
       /\ \/ BagCardinality(attendance') = BagCardinality(attendance)
          \/ /\ BagCardinality(attendance') = BagCardinality(attendance) + 1
             /\ \E r \in Slots : Inserted(r) /\ req'[r].resp = "Created"]_vars

(***************************************************************************)
(* C6.  Voiding an entry's rows twice in succession, nothing written to    *)
(* the table in between and at least one row not Voided at the start: the  *)
(* first update counts more than 0, the second counts 0 and changes no     *)
(* row.                                                                    *)
(***************************************************************************)
VoidStep == audit.pc = "void" /\ audit' # audit

C6_SecondVoidCountsZero ==
    [][VoidStep =>
          LET t == audit.current
              counted == audit'.voided_count - audit.voided_count
          IN /\ ( /\ voidedLast # t
                  /\ \E row \in RowsOf(attendance, t) : row.status # VOIDED )
                => counted > 0
             /\ voidedLast = t
                => ( counted = 0 /\ attendance' = attendance )]_vars

(***************************************************************************)
(* C7.  For each entry the audit examines, with the cohort the students of *)
(* the department and level of the entry's course and marked the rows of   *)
(* the entry in any status: the audit goes on to void exactly when         *)
(* cohort > 0 and marked / cohort < 0.10; voiding sets every row of the    *)
(* entry to Voided, leaves the rows of other entries alone and adds the    *)
(* number of rows it voided, those that were not Voided before, to the     *)
(* reported total; no other step of the audit writes to the table or adds  *)
(* to the total.                                                           *)
(***************************************************************************)
ExpectedCohortSize(t) ==
    Cardinality({u \in Students :
        /\ user_department(u) = Course[Timetable[t].course].department
        /\ user_level(u) = Course[Timetable[t].course].level})

MarkedCount(att, t) ==
    CountRows(att, {row \in BagToSet(att) : row.timetable = t})

\* number of rows of entry t that a void changes
VoidableCount(att, t) ==
    CountRows(att, {row \in BagToSet(att) :
        row.timetable = t /\ row.status # VOIDED})

CountStep == audit.pc = "loop" /\ audit' # audit

C7_VoidBelowThreshold ==
    [][/\ CountStep =>
             LET t == IF audit'.pc \in {"void", "failed"}
                        THEN audit'.current
                        ELSE CHOOSE x \in audit.todo \ audit'.todo : TRUE
                 cohort == ExpectedCohortSize(t)
                 marked == MarkedCount(attendance, t)
             IN /\ attendance' = attendance
                /\ audit'.pc = "void" <=> (cohort > 0 /\ 100 * marked < 10 * cohort)
                /\ audit'.pc # "failed"
                      => audit'.voided_count = audit.voided_count
       /\ VoidStep =>
             LET t == audit.current
             IN /\ \A row \in RowsOf(attendance', t) : row.status = VOIDED
                /\ \A o \in Timetables :
                      MarkedCount(attendance', o) = MarkedCount(attendance, o)
                /\ \A row \in BagToSet(attendance) \cup BagToSet(attendance') :
                      row.timetable # t =>
                         CopiesIn(row, attendance') = CopiesIn(row, attendance)
                /\ audit'.voided_count =
                      audit.voided_count + VoidableCount(attendance, t)
       /\ (audit' # audit /\ ~VoidStep) => attendance' = attendance]_vars

(***************************************************************************)
(* C8.  When an entry the audit selected has an expected cohort of 0 the   *)
(* audit does not fail: the turn of the loop that examines it voids none   *)
(* of its rows and the run goes on with the other selected entries, or     *)
(* returns its summary.                                                    *)
(***************************************************************************)
C8_ZeroCohortSkipped ==
    [][\A t \in Timetables :
          ( /\ CountStep
            /\ ExpectedCohortSize(t) = 0
            /\ t \in audit.todo
            /\ audit'.current = t \/ t \notin audit'.todo )
          => ( /\ audit'.pc \in {"loop", "respond"}
               /\ audit'.todo = audit.todo \ {t}
               /\ audit'.voided_count = audit.voided_count
               /\ attendance' = attendance )]_vars

(***************************************************************************)
(* C9.  A mark_attendance call by a user who is not a student answers      *)
(* Forbidden and writes nothing, and the student of every row of the table *)
(* is a user with the student role.                                        *)
(***************************************************************************)
C9_OnlyStudentsMark ==
    [][/\ \A row \in BagToSet(attendance') : user_type(row.student) = STUDENT
       /\ \A r \in Slots :
             (Served(r) /\ user_type(req'[r].user) # STUDENT)
             => ( /\ req'[r].pc = "done"
                  /\ req'[r].resp = "Forbidden"
                  /\ attendance' = attendance )]_vars

\* the lecturer was refused while the table holds a row
C9_Witness ==
    /\ \E r \in Slots :
          req[r].resp = "Forbidden" /\ user_type(req[r].user) = LECTURER
    /\ attendance # EmptyBag

(***************************************************************************)
(* C10.  For every department and time the resolver returns an entry only  *)
(* if the entry is enabled, its day is the time's weekday, its             *)
(* [start, end] window contains the time of day, both ends included, and   *)
(* its course is of that department; of several such entries it returns    *)
(* one with the earliest start; it returns nothing exactly when no entry   *)
(* satisfies the conditions.  Every mark_attendance call of a student gets *)
(* such an entry, for the student's department and the time of the call.   *)
(***************************************************************************)
Matches(t, dept, day, time) ==
    /\ Timetable[t].active
    /\ Timetable[t].day_of_week = day
    /\ Timetable[t].start_time <= time
    /\ time <= Timetable[t].end_time
    /\ Course[Timetable[t].course].department = dept

Resolved(t, dept, day, time) ==
    IF t = NoTimetable
      THEN \A o \in Timetables : ~Matches(o, dept, day, time)
      ELSE /\ t \in Timetables
           /\ Matches(t, dept, day, time)
           /\ \A o \in Timetables :
                 Matches(o, dept, day, time)
                    => Timetable[t].start_time <= Timetable[o].start_time

\* the times next to every window's ends and the instants of the clock, on
\* the weekdays of the entries and the day after
ProbeTimes ==
    UNION {{Timetable[t].start_time - 1, Timetable[t].start_time,
            Timetable[t].end_time, Timetable[t].end_time + 1} :
           t \in Timetables}
       \cup {Instants[i].time : i \in 1 .. NInstants}
ProbeDays == {0, 1, 2}

C10_ResolverProbes ==
    \A dept \in Departments \cup {NoDept} :
        \A day \in ProbeDays, time \in ProbeTimes :
            LET found == current_timetable(dept, day, time)
            IN /\ found # {}
               /\ \A t \in found : Resolved(t, dept, day, time)

C10_Resolver ==
    /\ []C10_ResolverProbes
    /\ [][\A r \in Slots :
             (Served(r) /\ user_type(req'[r].user) = STUDENT)
             => Resolved(req'[r].timetable, user_department(req'[r].user),
                         today, current_time)]_vars

\* at Monday 10:00 entries 1 and 2 both match department 1 and a call got
\* entry 1, the earlier start
C10_Witness ==
    /\ clock = 1
    /\ Cardinality(FilterActive(1, today, current_time)) > 1
    /\ \E r \in Slots : req[r].pc = "create" /\ req[r].timetable = 1

(***************************************************************************)
(* C11.  A mark_attendance call of a student made when no enabled entry of *)
(* the student's department has the current weekday and a window that      *)
(* contains the current time answers NoActiveSession and writes no row,    *)
(* from whatever position it is made.                                      *)
(***************************************************************************)
C11_NoActiveSession ==
    [][\A r \in Slots :
          ( /\ Served(r)
            /\ user_type(req'[r].user) = STUDENT
            /\ \A t \in Timetables :
                  ~Matches(t, user_department(req'[r].user),
                           today, current_time) )
          => ( /\ req'[r].pc = "done"
               /\ req'[r].resp = "NoActiveSession"
               /\ attendance' = attendance )]_vars

\* Tuesday 00:50, after the day's only entry has ended: a student who has a
\* row from Monday was answered NoActiveSession
C11_Witness ==
    /\ clock = 3
    /\ \E r \in Slots :
          /\ req[r].resp = "NoActiveSession"
          /\ user_type(req[r].user) = STUDENT
          /\ \E row \in BagToSet(attendance) : row.student = req[r].user

(***************************************************************************)
(* C12.  Every percentage reported for a (student, course) is the number   *)
(* of the student's rows of the course with status Present, divided by the *)
(* number of entries of the course, enabled or not, times 100, and 0 when  *)
(* the course has no entry.                                                *)
(***************************************************************************)
SamePercent(p, q) == p.num * q.den = q.num * p.den

ClaimedPercentage(att, u, c) ==
    LET entries == Cardinality({t \in Timetables : Timetable[t].course = c})
        present == CountRows(att, {row \in BagToSet(att) :
                        /\ row.student = u
                        /\ row.course = c
                        /\ row.status = PRESENT})
    IN IF entries = 0 THEN Percent(0, 1) ELSE Percent(100 * present, entries)

C12_ReportedPercentage ==
    stats.op \in {"my_attendance", "course_stats"} =>
        \A e \in stats.body :
            SamePercent(e.percentage,
                        ClaimedPercentage(attendance, e.student, e.course))

(***************************************************************************)
(* C13.  The quartile of a percentage p in [0, 100] is 0 if p = 0, 1 if    *)
(* 0 < p <= 25, 2 if 25 < p <= 50, 3 if 50 < p <= 75, 4 if 75 < p < 100    *)
(* and 5 if p = 100; so quartile(0) = 0, quartile(25) = 1,                 *)
(* quartile(25.01) = 2, quartile(50) = 2, quartile(75) = 3,                *)
(* quartile(99.99) = 4 and quartile(100) = 5.                              *)
(***************************************************************************)
ClaimedQuartile(p) ==
    CASE p.num = 0 -> 0
      [] 0 < p.num /\ p.num <= 25 * p.den -> 1
      [] 25 * p.den < p.num /\ p.num <= 50 * p.den -> 2
      [] 50 * p.den < p.num /\ p.num <= 75 * p.den -> 3
      [] 75 * p.den < p.num /\ p.num < 100 * p.den -> 4
      [] p.num = 100 * p.den -> 5

QuartileOf(p) ==
    IF ser.percentage = p THEN ser.quartile ELSE NoQuartile

C13_QuartilePartition ==
    ser.pc = "chained" =>
        /\ (0 <= ser.percentage.num
               /\ ser.percentage.num <= 100 * ser.percentage.den)
           => ser.quartile = ClaimedQuartile(ser.percentage)
        /\ QuartileOf(Percent(0, 100)) \in {NoQuartile, 0}
        /\ QuartileOf(Percent(2500, 100)) \in {NoQuartile, 1}
        /\ QuartileOf(Percent(2501, 100)) \in {NoQuartile, 2}
        /\ QuartileOf(Percent(5000, 100)) \in {NoQuartile, 2}
        /\ QuartileOf(Percent(7500, 100)) \in {NoQuartile, 3}
        /\ QuartileOf(Percent(9999, 100)) \in {NoQuartile, 4}
        /\ QuartileOf(Percent(10000, 100)) \in {NoQuartile, 5}

\* the quartile of 25.01 was computed, and is 2
C13_Witness ==
    /\ ser.pc = "chained"
    /\ QuartileOf(Percent(2501, 100)) = 2

(***************************************************************************)
(* C14.  A mark_attendance call that comes to the geofence test with a     *)
(* latitude outside [-90, 90], or against a hall whose radius is <= 0,     *)
(* answers InvalidCoordinate and writes no row, and no call goes on to the *)
(* INSERT against such a hall.                                             *)
(***************************************************************************)
C14_InvalidCoordinate ==
    [][\A r \in Slots :
          LET q == req'[r]
          IN ( /\ Served(r)
               /\ q.timetable # NoTimetable
               /\ q.resp # "AlreadyMarked"
               /\ \/ q.position = BadPosition
                  \/ LectureHall[Timetable[q.timetable].lecture_hall].radius
                        <= 0 )
             => ( /\ q.pc = "done"
                  /\ q.resp = "InvalidCoordinate"
                  /\ attendance' = attendance )]_vars

(***************************************************************************)
(* C15.  An audit run started at time now goes through exactly the enabled *)
(* entries of the current weekday whose end time lies in [now - 1h, now],  *)
(* also when now is less than one hour after midnight, and reports their   *)
(* number; the run writes to the rows of those entries only.               *)
(***************************************************************************)
InLookback(t, day, time) ==
    /\ Timetable[t].active
    /\ Timetable[t].day_of_week = day
    /\ Timetable[t].end_time <= time
    /\ Timetable[t].end_time >= time - LookbackMinutes

AuditStart == audit.pc = "idle" /\ audit' # audit

C15_LookbackWindow ==
    [][/\ AuditStart =>
             LET selection ==
                     {t \in Timetables : InLookback(t, today, current_time)}
             IN /\ audit'.todo = selection
                /\ audit'.total_classes = Cardinality(selection)
       /\ (audit' # audit /\ ~AuditStart) => audit'.todo \subseteq audit.todo
       /\ VoidStep =>
             /\ audit.current \in audit.todo
             /\ \A row \in BagToSet(attendance) \cup BagToSet(attendance') :
                   row.timetable # audit.current =>
                      CopiesIn(row, attendance') = CopiesIn(row, attendance)]_vars

(***************************************************************************)
(* C16.  When an audit run completes, every entry of which the run has     *)
(* changed a row has all its rows Voided, also when mark_attendance calls  *)
(* for the entry interleave with the run's count and update.               *)
(***************************************************************************)
C16_AllOrNothing ==
    [][(audit.pc = "respond" /\ audit'.pc = "done") =>
          \A t \in audit.changed :
              \A row \in RowsOf(attendance, t) : row.status = VOIDED]_vars

(***************************************************************************)
(* C17.  A course_stats request of a lecturer for a course the lecturer    *)
(* teaches returns exactly one (percentage, quartile, feedback) triple for *)
(* each student whose department and level are the course's; in every      *)
(* triple returned, to a lecturer or to a student, the quartile is the     *)
(* quartile of the returned percentage and the feedback is the message of  *)
(* that quartile.                                                          *)
(***************************************************************************)
C17_OneTriplePerStudent ==
    /\ ( /\ stats.op = "course_stats"
         /\ user_type(stats.user) = LECTURER
         /\ stats.course \in user_courses(stats.user) )
       => ( /\ stats.status = "OK"
            /\ \A e \in stats.body :
                  /\ e.student \in Students
                  /\ user_department(e.student)
                        = Course[stats.course].department
                  /\ user_level(e.student) = Course[stats.course].level
            /\ \A u \in Students :
                  ( /\ user_department(u) = Course[stats.course].department
                    /\ user_level(u) = Course[stats.course].level )
                  => Cardinality({e \in stats.body : e.student = u}) = 1 )
    /\ stats.op \in {"my_attendance", "course_stats"} =>
          \A e \in stats.body :
              /\ e.percentage.num <= 100 * e.percentage.den
                    => e.quartile = ClaimedQuartile(e.percentage)
              /\ e.feedback = Messages(e.quartile)

(***************************************************************************)
(* C18.  Once the table holds a row for a (student, entry) it holds one    *)
(* ever after, whatever its status and whatever the week, no INSERT for    *)
(* the pair succeeds again and every call that resolves to the pair is     *)
(* answered AlreadyMarked: at most one mark_attendance ever succeeds for   *)
(* the pair.                                                               *)
(***************************************************************************)
C18_OneSuccessEver ==
    [][\A row \in BagToSet(attendance) :
          LET u == row.student
              t == row.timetable
          IN /\ existing_attendance(attendance', u, t)
             /\ \A r \in Slots :
                   /\ (Served(r) /\ req'[r].user = u /\ req'[r].timetable = t)
                      => req'[r].resp = "AlreadyMarked"
                   /\ (Inserted(r) /\ req[r].user = u /\ req[r].timetable = t)
                      => req'[r].resp # "Created"]_vars

(***************************************************************************)
(* C19.  Every percentage computed for a (student, course) lies in         *)
(* [0, 100]: the student's Present rows of the course are never more than  *)
(* the entries that make the denominator, also when entries of the course  *)
(* have been disabled.                                                     *)
(***************************************************************************)
C19_PercentageInRange ==
    stats.op \in {"my_attendance", "course_stats"} =>
        \A e \in stats.body :
            /\ 0 <= e.percentage.num
            /\ e.percentage.num <= 100 * e.percentage.den

=============================================================================
